---- MODULE Spec2Model ----
(***************************************************************************)
(* Decision/tracking core of the smart shopper: the PriceTracker ledger,   *)
(* the composite score, compare_and_decide, the failed-open exclusion set  *)
(* and next_after_failed (src/app/tracker.py), the budget parser           *)
(* (src/app/utils.py) and the tool wrappers that expose them               *)
(* (src/app/tools.py).                                                     *)
(*                                                                         *)
(* Text is a sequence of one-character strings, so that strip, lower,      *)
(* html.escape, substring search and number parsing are computed and not   *)
(* assumed.  A number is [some, u, t]: the value u + t/10 (t in 0..9),     *)
(* some = FALSE standing for Python's None.  The texts the model feeds in  *)
(* carry at most one fractional digit, so this is exact.                   *)
(***************************************************************************)
EXTENDS Integers, Sequences, FiniteSets, TLC

VARIABLES
    items,          \* PriceTracker.items: ordered dict, a sequence of [app, list]
    prices,         \* PriceTracker.prices: best price per app, a sequence of [app, price]
    failed_opens,   \* PriceTracker.failed_opens: set of normalized titles
    observed,       \* history: the raw title of each listing, parallel to items
    marked,         \* history: the raw titles reported as failed to open
    calls,          \* history: the next_candidate calls of the retry loop so far
    arg,            \* the arguments of the tool call the agent has just made
    ret             \* what that call returned (or raised); idle between calls

vars == <<items, prices, failed_opens, observed, marked, calls, arg, ret>>

----------------------------------------------------------------------------
(* Text *)

\* Python's None where a text is expected (no text has a multi-character element)
NoneS == <<"<None>">>

Digits == <<"0", "1", "2", "3", "4", "5", "6", "7", "8", "9">>

UpperChars == <<"A", "B", "C", "D", "E", "F", "G", "H", "I", "J", "K", "L", "M",
                "N", "O", "P", "Q", "R", "S", "T", "U", "V", "W", "X", "Y", "Z">>

LowerChars == <<"a", "b", "c", "d", "e", "f", "g", "h", "i", "j", "k", "l", "m",
                "n", "o", "p", "q", "r", "s", "t", "u", "v", "w", "x", "y", "z">>

IsDigit(c) == \E i \in 1..10 : Digits[i] = c

DigitVal(c) == (CHOOSE i \in 1..10 : Digits[i] = c) - 1

IsSpace(c) == c \in {" ", "\t", "\n"}

\* str.lower() on one character
LowerChar(c) ==
    IF \E i \in 1..26 : UpperChars[i] = c
    THEN LowerChars[CHOOSE i \in 1..26 : UpperChars[i] = c]
    ELSE c

\* str.lower()
Lower(s) == [i \in 1..Len(s) |-> LowerChar(s[i])]

RECURSIVE LStrip(_)
LStrip(s) == IF s # <<>> /\ IsSpace(Head(s)) THEN LStrip(Tail(s)) ELSE s

RECURSIVE RStrip(_)
RStrip(s) ==
    IF s # <<>> /\ IsSpace(s[Len(s)]) THEN RStrip(SubSeq(s, 1, Len(s) - 1)) ELSE s

\* str.strip()
Strip(s) == RStrip(LStrip(s))

\* html.escape on one character (quote=True)
EscapeChar(c) ==
    CASE c = "&"  -> <<"&", "a", "m", "p", ";">>
      [] c = "<"  -> <<"&", "l", "t", ";">>
      [] c = ">"  -> <<"&", "g", "t", ";">>
      [] c = "\"" -> <<"&", "q", "u", "o", "t", ";">>
      [] c = "'"  -> <<"&", "#", "x", "2", "7", ";">>
      [] OTHER    -> <<c>>

RECURSIVE HtmlEscape(_)
\* html.escape(s)
HtmlEscape(s) ==
    IF s = <<>> THEN <<>> ELSE EscapeChar(Head(s)) \o HtmlEscape(Tail(s))

\* Python's `sub in s`
Contains(s, sub) ==
    \E i \in 0..(Len(s) - Len(sub)) : SubSeq(s, i + 1, i + Len(sub)) = sub

\* re.sub(r"[^0-9.]", "", s)
DigitsAndDots(s) == SelectSeq(s, LAMBDA c : IsDigit(c) \/ c = ".")

\* s.replace(',', '')
DropCommas(s) == SelectSeq(s, LAMBDA c : c # ",")

\* Python truthiness of an optional text: None and '' are falsy
Truthy(s) == s # NoneS /\ s # <<>>

----------------------------------------------------------------------------
(* Numbers *)

NoneN == [some |-> FALSE, u |-> 0, t |-> 0]

Num(u, t) == [some |-> TRUE, u |-> u, t |-> t]

NumInt(n) == Num(n, 0)

NumLT(a, b) == a.u < b.u \/ (a.u = b.u /\ a.t < b.t)

NumLE(a, b) == a.u < b.u \/ (a.u = b.u /\ a.t <= b.t)

\* a - b
NumSub(a, b) ==
    IF a.t >= b.t THEN Num(a.u - b.u, a.t - b.t)
    ELSE Num(a.u - b.u - 1, a.t + 10 - b.t)

\* -a
NumNeg(a) == NumSub(NumInt(0), a)

\* a * k for k a positive multiple of 10: the product is whole
NumScale(a, k) == NumInt(a.u * k + a.t * (k \div 10))

RECURSIVE DigitsToInt(_)
DigitsToInt(s) ==
    IF s = <<>> THEN 0
    ELSE DigitsToInt(SubSeq(s, 1, Len(s) - 1)) * 10 + DigitVal(s[Len(s)])

AllDigits(s) == \A i \in 1..Len(s) : IsDigit(s[i])

DotAt(s) == CHOOSE i \in 1..Len(s) : s[i] = "."

\* float() of an unsigned decimal text of digits and dots: [ok, val], ok = FALSE
\* for ValueError. "5." and ".5" are numbers, "." and "1.2.3" are not.
UFloat(s) ==
    IF s = <<>> THEN [ok |-> FALSE, val |-> NoneN]
    ELSE IF AllDigits(s) THEN [ok |-> TRUE, val |-> NumInt(DigitsToInt(s))]
    ELSE IF \E i \in 1..Len(s) : s[i] = "."
    THEN LET d  == DotAt(s)
             ip == SubSeq(s, 1, d - 1)
             fp == SubSeq(s, d + 1, Len(s))
         IN  IF AllDigits(ip) /\ AllDigits(fp) /\ (ip # <<>> \/ fp # <<>>)
             THEN [ok |-> TRUE,
                   val |-> Num(DigitsToInt(ip), IF fp = <<>> THEN 0 ELSE DigitVal(fp[1]))]
             ELSE [ok |-> FALSE, val |-> NoneN]
    ELSE [ok |-> FALSE, val |-> NoneN]

\* float(str): surrounding whitespace and one sign are accepted
PyFloat(s) ==
    LET b == Strip(s)
    IN  IF b # <<>> /\ b[1] = "-"
        THEN LET r == UFloat(Tail(b))
             IN  [ok |-> r.ok, val |-> IF r.ok THEN NumNeg(r.val) ELSE NoneN]
        ELSE IF b # <<>> /\ b[1] = "+" THEN UFloat(Tail(b))
        ELSE UFloat(b)

----------------------------------------------------------------------------
(* Budget parser: src/app/utils.py *)

Raised == [ok |-> FALSE, val |-> NoneN]

Parsed(v) == [ok |-> TRUE, val |-> v]

\* [0-9]+(?:\.[0-9]+)? : digits, or digits "." digits
StrictNumber(s) ==
    \/ (s # <<>> /\ AllDigits(s))
    \/ \E d \in 1..Len(s) :
          /\ s[d] = "."
          /\ d > 1 /\ d < Len(s)
          /\ AllDigits(SubSeq(s, 1, d - 1))
          /\ AllDigits(SubSeq(s, d + 1, Len(s)))

IsSuffix(c) == c \in {"k", "K", "m", "M"}

\* a parse_budget that drops the suffix without multiplying
parse_budget_nosuffix(raw) ==
    LET s    == Strip(raw)
        b    == Strip(DropCommas(s))
        body == IF b # <<>> /\ IsSuffix(b[Len(b)]) THEN RStrip(SubSeq(b, 1, Len(b) - 1)) ELSE b
    IN  IF raw = NoneS \/ s = <<>> THEN Raised
        ELSE IF ~StrictNumber(body)
        THEN LET cleaned == DigitsAndDots(s)
                 f       == UFloat(cleaned)
             IN  IF cleaned = <<>> \/ ~f.ok THEN Raised
                 ELSE IF NumLE(f.val, NumInt(0)) THEN Raised
                 ELSE Parsed(f.val)
        ELSE LET num == UFloat(body).val
             IN  IF NumLE(num, NumInt(0)) THEN Raised ELSE Parsed(num)

\* parse_budget(raw) for a text raw: [ok, val], ok = FALSE when it raises ValueError
parse_budget(raw) ==
    LET s    == Strip(raw)
        b    == Strip(DropCommas(s))
        suf  == IF b # <<>> /\ IsSuffix(b[Len(b)]) THEN <<LowerChar(b[Len(b)])>> ELSE <<>>
        body == IF suf # <<>> THEN RStrip(SubSeq(b, 1, Len(b) - 1)) ELSE b
    IN  IF raw = NoneS \/ s = <<>> THEN Raised
        ELSE IF ~StrictNumber(body)
        THEN LET cleaned == DigitsAndDots(s)
                 f       == UFloat(cleaned)
             IN  IF cleaned = <<>> \/ ~f.ok THEN Raised
                 ELSE IF NumLE(f.val, NumInt(0)) THEN Raised
                 ELSE Parsed(f.val)
        ELSE LET num == UFloat(body).val
                 val == IF suf = <<"k">> THEN NumScale(num, 1000)
                        ELSE IF suf = <<"m">> THEN NumScale(num, 1000000)
                        ELSE num
             IN  IF NumLE(val, NumInt(0)) THEN Raised ELSE Parsed(val)

----------------------------------------------------------------------------
(* A budget argument: absent, a number, or a text *)

NoBudget == [tag |-> "none", val |-> NoneN, s |-> <<>>]

NumBudget(v) == [tag |-> "num", val |-> v, s |-> <<>>]

TextBudget(s) == [tag |-> "text", val |-> NoneN, s |-> s]

\* str(budget) of a budget that is no number
BudgetStr(b) == IF b.tag = "none" THEN <<"N", "o", "n", "e">> ELSE b.s

----------------------------------------------------------------------------
(* The inputs of the model *)

\* the most listings the ledger holds in a run of the model
MaxItems == 3

AppNames == { <<"A", "z">>, <<"a", "z", " ">>, <<"f", "k">>, NoneS }

Obs(p, r, t) == [price_text |-> p, rating |-> r, title |-> t]

T_x == <<"x">>

T_X == <<" ", "X", " ">>

T_amp == <<"a", "&", "b">>

\* what the agent reads off the screen: price text, rating text, title
Observations ==
    { Obs(<<"$", "1", ",", "2", "0", "0">>, <<"3", ".", "0">>, T_x),
      Obs(<<"1", "5", "0", "0">>, <<"4", ".", "8">>, T_X),
      Obs(<<"2", "5", "0", "0">>, <<"4", ".", "8">>, T_amp),
      Obs(NoneS, <<"4", ".", "9">>, NoneS),
      Obs(<<"9", "9", "9">>, <<"5">>, <<"A", "d", " ", "x">>),
      Obs(<<"S", "p", "o", "n", "s", "o", "r", "e", "d", " ", "5">>, NoneS, <<"y">>),
      Obs(NoneS, NoneS, NoneS) }

\* the observations of the record-only runs: the above, and the ones whose only field
\* is an empty text
RecordObservations ==
    Observations \cup { Obs(<<>>, NoneS, NoneS), Obs(NoneS, NoneS, <<>>) }

\* the titles the agent reports as failed to open, or asks about
FailTitles == { NoneS, T_x, T_X, T_amp }

FailApps == { NoneS, <<"f", "k">> }

DecideBudgets ==
    { NumBudget(NumInt(2000)), NumBudget(NumInt(1000)), NumBudget(NumInt(0)),
      TextBudget(<<"1", "5", "k">>), TextBudget(<<"a", "b", "c">>), NoBudget }

RetryBudgets ==
    { NoBudget, TextBudget(<<"2", "0", "0", "0">>), TextBudget(<<"1", "5", "k">>) }

\* next_candidate's storefront only reaches the message of mark_failed_open
RetryApps == { NoneS }

----------------------------------------------------------------------------
(* The text functions, tabulated once over the texts of the model.  Each    *)
(* table holds the values of the operator that translates the code.         *)

Unknown == <<"(", "u", "n", "k", "n", "o", "w", "n", ")">>

\* title or '(unknown)'
OrUnknown(title) == IF Truthy(title) THEN title ELSE Unknown

\* title or '' , price_text or ''
OrEmpty(s) == IF Truthy(s) THEN s ELSE <<>>

\* a _norm_title that forgets to lowercase
norm_title_nolower(title) ==
    IF ~Truthy(title) THEN <<>> ELSE HtmlEscape(Strip(title))

\* _norm_title
norm_title(title) ==
    IF ~Truthy(title) THEN <<>> ELSE HtmlEscape(Lower(Strip(title)))

\* log_price's _parse_number
parse_number(x) ==
    IF x = NoneS THEN NoneN
    ELSE LET s == DigitsAndDots(x)
             f == UFloat(s)
         IN  IF s = <<>> \/ ~f.ok THEN NoneN ELSE f.val

\* app_name.lower().strip()
clean_name(app_name) == Strip(Lower(app_name))

ObsTitles == { o.title : o \in RecordObservations }

ObsPrices == { o.price_text : o \in RecordObservations }

StoredTitles == { HtmlEscape(OrUnknown(t)) : t \in ObsTitles }

TitleTexts == ObsTitles \cup FailTitles \cup StoredTitles \cup {<<>>, NoneS}

NormTitle == [t \in TitleTexts |-> norm_title(t)]

Escaped ==
    [s \in { OrUnknown(t) : t \in ObsTitles } \cup { OrEmpty(p) : p \in ObsPrices }
        |-> HtmlEscape(s)]

ParseNumber ==
    [x \in ObsPrices \cup { o.rating : o \in RecordObservations } |-> parse_number(x)]

CleanName == [a \in AppNames \ {NoneS} |-> clean_name(a)]

----------------------------------------------------------------------------
(* The ordered dicts *)

HasKey(d, k) == \E i \in 1..Len(d) : d[i].app = k

KeyIndex(d, k) == CHOOSE i \in 1..Len(d) : d[i].app = k

\* a setdefault(k, []).insert(0, x): the new element goes in front
AppendTo_front(d, k, x) ==
    IF HasKey(d, k)
    THEN [d EXCEPT ![KeyIndex(d, k)].list = <<x>> \o @]
    ELSE Append(d, [app |-> k, list |-> <<x>>])

\* d.setdefault(k, []).append(x)
AppendTo(d, k, x) ==
    IF HasKey(d, k)
    THEN [d EXCEPT ![KeyIndex(d, k)].list = Append(@, x)]
    ELSE Append(d, [app |-> k, list |-> <<x>>])

\* d[k] = v
SetKey(d, k, v) ==
    IF HasKey(d, k)
    THEN [d EXCEPT ![KeyIndex(d, k)].price = v]
    ELSE Append(d, [app |-> k, price |-> v])

\* d.get(k)
GetPrice(d, k) == IF HasKey(d, k) THEN d[KeyIndex(d, k)].price ELSE NoneN

----------------------------------------------------------------------------
(* What a tool call returns *)

NoRet ==
    [op |-> "idle", kind |-> "none", err |-> "", app |-> NoneS, title |-> NoneS,
     price |-> NoneN, rating |-> NoneN, score |-> NoneN, reason |-> "", flag |-> FALSE]

\* {"error": ...} or an "Error: ..." string
Err(e) == [NoRet EXCEPT !.kind = "error", !.err = e]

\* an exception that leaves the called function
Raise(e) == [NoRet EXCEPT !.kind = "raise", !.err = e]

Ok == [NoRet EXCEPT !.kind = "ok"]

----------------------------------------------------------------------------
(* PriceTracker: src/app/tracker.py *)

\* log_price: [items, prices, ret]
log_price(app_name, price_text, rating, title) ==
    IF price_text = NoneS /\ rating = NoneS /\ ~Truthy(title)
    THEN [items |-> items, prices |-> prices, ret |-> Err("MissingInput")]
    ELSE IF app_name = NoneS
    THEN [items |-> items, prices |-> prices, ret |-> Raise("AttributeError")]
    ELSE
      LET name       == CleanName[app_name]
          price_val  == ParseNumber[price_text]
          rating_val == ParseNumber[rating]
          rec_title  == Escaped[OrUnknown(title)]
          record     == [price |-> price_val, rating |-> rating_val, title |-> rec_title,
                         raw_price |-> Escaped[OrEmpty(price_text)]]
          prev       == GetPrice(prices, name)
      IN  [items  |-> AppendTo(items, name, record),
           prices |-> IF price_val.some /\ (~prev.some \/ NumLT(price_val, prev))
                      THEN SetKey(prices, name, price_val)
                      ELSE prices,
           ret    |-> [Ok EXCEPT !.app = name, !.title = rec_title,
                                 !.price = price_val, !.rating = rating_val]]

PricePenalty == 1000000000

RatingWeight == 10000

\* _score_item
score_item(item) ==
    LET rating == IF item.rating.some THEN item.rating ELSE NumInt(0)
        price  == IF item.price.some THEN item.price ELSE NumInt(PricePenalty)
    IN  NumSub(NumScale(rating, RatingWeight), price)

\* the index max(seq, key=...) returns, given the keys: the first of the maxima
ArgMax(keys) ==
    CHOOSE i \in 1..Len(keys) :
        /\ \A j \in 1..Len(keys) : ~NumLT(keys[i], keys[j])
        /\ \A j \in 1..(i - 1) : NumLT(keys[j], keys[i])

\* [self._score_item(it) for it in seq]
Scores(seq) == [i \in 1..Len(seq) |-> score_item(seq[i])]

\* [c['score'] for c in seq]
CandScores(seq) == [i \in 1..Len(seq) |-> seq[i].score]

\* the prices of the candidates, negated: the first maximum is what sorted() puts first
NegPrices(seq) == [i \in 1..Len(seq) |-> NumNeg(seq[i].item.price)]

\* items[:n]
Take(seq, n) == SubSeq(seq, 1, IF Len(seq) < n THEN Len(seq) ELSE n)

\* the best of each app's first sample_size items, in dict order
SampleCandidates(sample_size) ==
    [i \in 1..Len(items) |->
        LET sample == Take(items[i].list, sample_size)
            best   == sample[ArgMax(Scores(sample))]
        IN  [app |-> items[i].app, item |-> best, score |-> score_item(best)]]

\* a budget filter that drops the listings of unknown price
WithinBudget_known(c, budget) == c.item.price.some /\ NumLE(c.item.price, budget)

WithinBudget(c, budget) == ~c.item.price.some \/ NumLE(c.item.price, budget)

\* choose_overall_best(budget, sample_size): the candidate, for a ledger that is not empty
choose_overall_best(budget, sample_size) ==
    LET candidates == SampleCandidates(sample_size)
        filtered   == SelectSeq(candidates, LAMBDA c : WithinBudget(c, budget))
        pool       == IF budget.some /\ filtered # <<>> THEN filtered ELSE candidates
    IN  pool[ArgMax(CandScores(pool))]

SampleSize == 2

\* the budget compare_and_decide works with: [ok, val]
clean_budget(budget) ==
    IF budget.tag = "num" THEN Parsed(budget.val) ELSE parse_budget(BudgetStr(budget))

CleanBudget == [b \in DecideBudgets |-> clean_budget(b)]

\* a selection that skips the price-first rule
Select_by_score(cb) ==
    LET w == choose_overall_best(cb, SampleSize)
    IN  [app |-> w.app, item |-> w.item, score |-> w.score, reason |-> "score"]

\* the listing compare_and_decide selects for a parsed budget, and why
Select(cb) ==
    LET per_app          == SampleCandidates(SampleSize)
        price_candidates == SelectSeq(per_app,
                                LAMBDA c : c.item.price.some /\ NumLE(c.item.price, cb))
    IN  IF price_candidates # <<>>
        THEN LET c == price_candidates[ArgMax(NegPrices(price_candidates))]
             IN  [app |-> c.app, item |-> c.item, score |-> score_item(c.item),
                  reason |-> "price"]
        ELSE LET w == choose_overall_best(cb, SampleSize)
             IN  [app |-> w.app, item |-> w.item, score |-> w.score, reason |-> "score"]

\* a final check that is missing
OverBudget_off(price, cb) == FALSE

\* the final check on the selected listing's price
OverBudget(price, cb) == price.some /\ NumLT(cb, price)

\* a compare_and_decide that parses the budget before it looks at the ledger
compare_and_decide_budget_first(budget) ==
    LET b == CleanBudget[budget]
    IN  IF ~b.ok THEN Err("InvalidBudget")
        ELSE IF items = <<>> THEN Err("NoListings")
        ELSE LET w == Select(b.val)
             IN  IF OverBudget(w.item.price, b.val)
                 THEN [Err("BudgetExceeded") EXCEPT !.app = w.app,
                                                    !.price = w.item.price]
                 ELSE [Ok EXCEPT !.app = w.app, !.title = w.item.title,
                                 !.price = w.item.price, !.rating = w.item.rating,
                                 !.score = w.score, !.reason = w.reason]

\* compare_and_decide
compare_and_decide(budget) ==
    IF items = <<>> THEN Err("NoListings")
    ELSE LET b == CleanBudget[budget]
         IN  IF ~b.ok THEN Err("InvalidBudget")
             ELSE LET w == Select(b.val)
                  IN  IF OverBudget(w.item.price, b.val)
                      THEN [Err("BudgetExceeded") EXCEPT !.app = w.app,
                                                         !.price = w.item.price]
                      ELSE [Ok EXCEPT !.app = w.app, !.title = w.item.title,
                                      !.price = w.item.price, !.rating = w.item.rating,
                                      !.score = w.score, !.reason = w.reason]

\* a mark_failed_open that assigns the set instead of adding to it
mark_failed_open_reset(app_name, identifier) ==
    IF ~Truthy(identifier)
    THEN [failed_opens |-> failed_opens, ret |-> Err("MissingInput")]
    ELSE [failed_opens |-> {NormTitle[identifier]},
          ret |-> [Ok EXCEPT !.title = identifier]]

\* mark_failed_open: [failed_opens, ret]
mark_failed_open(app_name, identifier) ==
    IF ~Truthy(identifier)
    THEN [failed_opens |-> failed_opens, ret |-> Err("MissingInput")]
    ELSE [failed_opens |-> failed_opens \cup {NormTitle[identifier]},
          ret |-> [Ok EXCEPT !.title = identifier]]

\* should_try
should_try(identifier) ==
    IF ~Truthy(identifier) THEN TRUE ELSE NormTitle[identifier] \notin failed_opens

\* next_after_failed's exclusion test on a stored listing
Excluded(it, exclude) == Truthy(it.title) /\ NormTitle[it.title] \in exclude

\* next_after_failed: the best listing of each app that is not excluded, in dict order
RetryCandidates(exclude) ==
    LET best(i) ==
            LET filtered == SelectSeq(items[i].list, LAMBDA it : ~Excluded(it, exclude))
                b        == filtered[ArgMax(Scores(filtered))]
            IN  [app |-> items[i].app, item |-> b, score |-> score_item(b)]
        keep == SelectSeq([i \in 1..Len(items) |-> i],
                    LAMBDA i : \E j \in 1..Len(items[i].list) :
                                    ~Excluded(items[i].list[j], exclude))
    IN  [n \in 1..Len(keep) |-> best(keep[n])]

\* Python truthiness of a budget argument: None, '', 0 and 0.0 are falsy
BudgetTruthy(b) ==
    \/ (b.tag = "num" /\ b.val # NumInt(0))
    \/ (b.tag = "text" /\ b.s # <<>>)

\* float(budget) if budget else None: [ok, val], ok = FALSE when float() raises
budget_val(budget) ==
    IF ~BudgetTruthy(budget) THEN Parsed(NoneN)
    ELSE IF budget.tag = "num" THEN Parsed(budget.val)
    ELSE PyFloat(budget.s)

BudgetVal == [b \in RetryBudgets |-> budget_val(b)]

\* next_after_failed: [failed_opens, ret]
next_after_failed(app_name, identifier, budget) ==
    LET exclude    == mark_failed_open(app_name, identifier).failed_opens
        candidates == RetryCandidates(exclude)
        bv         == BudgetVal[budget]
        filtered   == SelectSeq(candidates, LAMBDA c : WithinBudget(c, bv.val))
        pool       == IF bv.val.some /\ bv.val # NumInt(0) /\ filtered # <<>>
                      THEN filtered ELSE candidates
        w          == pool[ArgMax(CandScores(pool))]
    IN  [failed_opens |-> exclude,
         ret |-> IF candidates = <<>> THEN Err("NoCandidates")
                 ELSE IF ~bv.ok THEN Raise("ValueError")
                 ELSE [Ok EXCEPT !.app = w.app, !.title = w.item.title,
                                 !.price = w.item.price, !.rating = w.item.rating,
                                 !.score = w.score]]

----------------------------------------------------------------------------
(* The tool wrappers: src/app/tools.py *)

SponsoredWords ==
    { <<"s", "p", "o", "n", "s", "o", "r", "e", "d">>,
      <<"a", "d">>,
      <<"a", "d", "v", "e", "r", "t", "i", "s", "e", "m", "e", "n", "t">>,
      <<"p", "r", "o", "m", "o", "t", "e", "d">> }

\* a filter that compares case-sensitively
IsSponsored_case(title, price_text) ==
    LET combined == OrEmpty(title) \o <<" ">> \o OrEmpty(price_text)
    IN  \E x \in SponsoredWords : Contains(combined, x)

\* safe_log_price's filter
IsSponsored(title, price_text) ==
    LET combined == Lower(OrEmpty(title) \o <<" ">> \o OrEmpty(price_text))
    IN  \E x \in SponsoredWords : Contains(combined, x)

Sponsored ==
    [p \in { <<o.title, o.price_text>> : o \in RecordObservations } |->
        IsSponsored(p[1], p[2])]

\* an exception caught by a wrapper's try/except becomes {"error": str(e)}
Caught(r) == IF r.kind = "raise" THEN Err(r.err) ELSE r

\* safe_log_price: [items, prices, ret]
safe_log_price(app_name, price_text, rating, title) ==
    IF Sponsored[<<title, price_text>>]
    THEN [items |-> items, prices |-> prices, ret |-> [Ok EXCEPT !.reason = "skipped_sponsored"]]
    ELSE LET r == log_price(app_name, price_text, rating, title)
         IN  [r EXCEPT !.ret = Caught(r.ret)]

\* safe_compare_and_decide
safe_compare_and_decide(budget) == Caught(compare_and_decide(budget))

\* safe_mark_failed_open
safe_mark_failed_open(app_name, identifier) == mark_failed_open(app_name, identifier)

\* safe_should_try
safe_should_try(identifier) == should_try(identifier)

\* safe_next_candidate
safe_next_candidate(app_name, identifier, budget) ==
    next_after_failed(OrEmpty(app_name), OrEmpty(identifier), budget)

----------------------------------------------------------------------------
(* The calls the agent makes *)

NoArg == [app |-> NoneS, price_text |-> NoneS, rating |-> NoneS, title |-> NoneS,
          budget |-> NoBudget]

RECURSIVE SumLens(_)
SumLens(d) == IF d = <<>> THEN 0 ELSE Len(Head(d).list) + SumLens(Tail(d))

TotalListings == SumLens(items)

Init ==
    /\ items = <<>>
    /\ prices = <<>>
    /\ failed_opens = {}
    /\ observed = <<>>
    /\ marked = {}
    /\ calls = 0
    /\ arg = NoArg
    /\ ret = NoRet

\* the agent is between two tool calls
Idle == ret = NoRet

\* the record_listing tool
Record(app, o) ==
    LET r == safe_log_price(app, o.price_text, o.rating, o.title)
    IN  /\ Idle
        /\ r.items # items => TotalListings < MaxItems
        /\ items' = r.items
        /\ prices' = r.prices
        /\ observed' = IF r.ret.kind = "ok" /\ r.ret.reason # "skipped_sponsored"
                       THEN AppendTo(observed, CleanName[app], o.title)
                       ELSE observed
        /\ arg' = [NoArg EXCEPT !.app = app, !.price_text = o.price_text,
                                !.rating = o.rating, !.title = o.title]
        /\ ret' = [r.ret EXCEPT !.op = "record"]
        /\ UNCHANGED <<failed_opens, marked, calls>>

\* the decide tool
Decide(b) ==
    /\ Idle
    /\ arg' = [NoArg EXCEPT !.budget = b]
    /\ ret' = [safe_compare_and_decide(b) EXCEPT !.op = "decide"]
    /\ UNCHANGED <<items, prices, failed_opens, observed, marked, calls>>

\* the mark_failed_open tool
MarkFailedOpen(app, t) ==
    LET r == safe_mark_failed_open(app, t)
    IN  /\ Idle
        /\ failed_opens' = r.failed_opens
        /\ marked' = IF Truthy(t) THEN marked \cup {t} ELSE marked
        /\ arg' = [NoArg EXCEPT !.app = app, !.title = t]
        /\ ret' = [r.ret EXCEPT !.op = "mark"]
        /\ UNCHANGED <<items, prices, observed, calls>>

\* the should_try tool
ShouldTry(t) ==
    /\ Idle
    /\ arg' = [NoArg EXCEPT !.title = t]
    /\ ret' = [Ok EXCEPT !.op = "should_try", !.flag = safe_should_try(t)]
    /\ UNCHANGED <<items, prices, failed_opens, observed, marked, calls>>

\* the next_candidate tool
NextCandidate(app, t, b) ==
    LET r == safe_next_candidate(app, t, b)
    IN  /\ Idle
        /\ failed_opens' = r.failed_opens
        /\ marked' = IF Truthy(t) THEN marked \cup {t} ELSE marked
        /\ arg' = [NoArg EXCEPT !.app = app, !.title = t, !.budget = b]
        /\ ret' = [r.ret EXCEPT !.op = "next"]
        /\ UNCHANGED <<items, prices, observed, calls>>

\* the agent has read the result of its call and goes on to the next one
Resume ==
    /\ ~Idle
    /\ arg' = NoArg
    /\ ret' = NoRet
    /\ UNCHANGED <<items, prices, failed_opens, observed, marked, calls>>

Next ==
    \/ \E app \in AppNames, o \in Observations : Record(app, o)
    \/ \E b \in DecideBudgets : Decide(b)
    \/ \E app \in FailApps, t \in FailTitles : MarkFailedOpen(app, t)
    \/ \E t \in FailTitles : ShouldTry(t)
    \/ \E app \in RetryApps, t \in FailTitles, b \in RetryBudgets : NextCandidate(app, t, b)
    \/ Resume

Spec == Init /\ [][Next]_vars

\* the agent only records, with the observations of an empty text among its inputs
NextRecord ==
    \/ \E app \in AppNames, o \in RecordObservations : Record(app, o)
    \/ Resume

SpecRecord == Init /\ [][NextRecord]_vars

----------------------------------------------------------------------------
(* The retry loop: the agent builds the ledger, asks for a listing with decide or  *)
(* next_candidate, and from then on only calls next_candidate, each time with the  *)
(* title of the listing the call before returned                                   *)

\* the agent has read the result of a record call
ResumeRecord == ret.op = "record" /\ Resume

\* next_candidate with the title of the listing just returned
RetryNext(b) ==
    LET t == ret.title
        r == safe_next_candidate(NoneS, t, b)
    IN  /\ ret.op \in {"decide", "next"} /\ ret.kind = "ok"
        /\ calls <= TotalListings
        /\ failed_opens' = r.failed_opens
        /\ marked' = marked \cup {t}
        /\ calls' = calls + 1
        /\ arg' = [NoArg EXCEPT !.title = t, !.budget = b]
        /\ ret' = [r.ret EXCEPT !.op = "next"]
        /\ UNCHANGED <<items, prices, observed>>

NextRetry ==
    \/ \E app \in AppNames, o \in Observations : Record(app, o)
    \/ ResumeRecord
    \/ \E b \in DecideBudgets : Decide(b)
    \/ \E t \in FailTitles, b \in RetryBudgets : NextCandidate(NoneS, t, b)
    \/ \E b \in RetryBudgets : RetryNext(b)

SpecRetry == Init /\ [][NextRetry]_vars

----------------------------------------------------------------------------
(* parse_budget on its own: budget texts put together from a prefix, a body and a *)
(* suffix, and the examples of its docstring                                     *)

BudgetPrefixes == { <<>>, <<" ">>, <<"$">>, <<"-">> }

BudgetBodies ==
    { <<>>, <<"0">>, <<"1", "5">>, <<"1", ",", "4", "9", "9">>, <<"2", ".", "5">>, <<"0", ".", "0">>, <<"1", ".", "2", ".", "3">>, <<".", "5">>, <<"5", ".">>, <<"a", "b", "c">> }

BudgetSuffixes ==
    { <<>>, <<"k">>, <<"K">>, <<"m">>, <<"M">>, <<" ", "k">>, <<"k", "k">>, <<" ">>, <<"x">> }

BudgetExamples == { <<"1", "4", ",", "9", "9", "9">>, <<"1", "5", "k">>, <<"2", ".", "5", "M">>, <<"1", "4", "9", "9", "9">> }

BudgetTexts ==
    { p \o b \o x : p \in BudgetPrefixes, b \in BudgetBodies, x \in BudgetSuffixes }
        \cup BudgetExamples

ParseBudget(raw) ==
    LET r == parse_budget(raw)
    IN  /\ Idle
        /\ arg' = [NoArg EXCEPT !.budget = TextBudget(raw)]
        /\ ret' = IF r.ok THEN [Ok EXCEPT !.op = "parse_budget", !.price = r.val]
                  ELSE [Raise("ValueError") EXCEPT !.op = "parse_budget"]
        /\ UNCHANGED <<items, prices, failed_opens, observed, marked, calls>>

NextBudget ==
    \/ \E raw \in BudgetTexts : ParseBudget(raw)
    \/ Resume

SpecBudget == Init /\ [][NextBudget]_vars

----------------------------------------------------------------------------
(* _score_item on its own: a storefront's sample of two stored listings, scored *)

\* the prices and ratings log_price can store: unknown, or a number that is not negative
ScorePrices ==
    { NoneN, NumInt(0), Num(999, 5), NumInt(1500), NumInt(2500),
      NumInt(PricePenalty), NumInt(2 * PricePenalty) }

ScoreRatings == { NoneN, NumInt(0), NumInt(3), Num(4, 8), NumInt(5) }

\* the record log_price stores for a price and a rating read without a title
ScoreListing(p, r) == [price |-> p, rating |-> r, title |-> Unknown, raw_price |-> <<>>]

ScoreListings == { ScoreListing(p, r) : p \in ScorePrices, r \in ScoreRatings }

ScoreApp == <<"f", "k">>

\* the best-price index after the listings a and b were recorded
ScoreIndex(a, b) ==
    IF a.price.some /\ (~b.price.some \/ NumLE(a.price, b.price))
    THEN <<[app |-> ScoreApp, price |-> a.price]>>
    ELSE IF b.price.some THEN <<[app |-> ScoreApp, price |-> b.price]>>
    ELSE <<>>

InitScore ==
    /\ \E a \in ScoreListings, b \in ScoreListings :
          /\ items = <<[app |-> ScoreApp, list |-> <<a, b>>]>>
          /\ prices = ScoreIndex(a, b)
    /\ failed_opens = {}
    /\ observed = <<[app |-> ScoreApp, list |-> <<NoneS, NoneS>>]>>
    /\ marked = {}
    /\ calls = 0
    /\ arg = NoArg
    /\ ret = NoRet

\* best_item = max(sample, key=self._score_item); score = self._score_item(best_item)
ScoreBest ==
    LET c == SampleCandidates(SampleSize)[1]
    IN  /\ Idle
        /\ arg' = NoArg
        /\ ret' = [Ok EXCEPT !.op = "score", !.app = c.app, !.title = c.item.title,
                             !.price = c.item.price, !.rating = c.item.rating,
                             !.score = c.score]
        /\ UNCHANGED <<items, prices, failed_opens, observed, marked, calls>>

NextScore ==
    \/ ScoreBest
    \/ Resume

SpecScore == InitScore /\ [][NextScore]_vars

----------------------------------------------------------------------------
(* Properties *)

\* the listings of the ledger as [app, pos, item, seen]: seen is the title as observed
Listings ==
    { [app |-> items[i].app, pos |-> j, item |-> items[i].list[j],
       seen |-> observed[i].list[j]] :
        <<i, j>> \in { p \in (1..Len(items)) \X (1..MaxItems + 1) :
                          p[2] <= Len(items[p[1]].list) } }

\* the listings a successful decide or next_candidate result stands for
Returned ==
    { l \in Listings : /\ l.app = ret.app
                       /\ l.item.title = ret.title
                       /\ l.item.price = ret.price
                       /\ l.item.rating = ret.rating }

\* C1: a successful next_candidate never returns a listing whose title, as it was
\* observed, normalizes (trim, lowercase, HTML-escape) to the normalized title of a
\* title reported as failed to open, this call's included.
C1_NeverReturnsFailedTitle ==
    (ret.op = "next" /\ ret.kind = "ok") =>
        \A l \in Returned : \A t \in marked : NormTitle[l.seen] # NormTitle[t]

\* the budget of the last decide call, as a number
DecideBudget == CleanBudget[arg.budget].val

\* C2: decide never succeeds with a known price above the budget; a selected listing
\* whose known price is above the budget makes it fail with BudgetExceeded.
C2_NeverOverBudget ==
    (ret.op = "decide" /\ CleanBudget[arg.budget].ok /\ items # <<>>) =>
        /\ (ret.kind = "ok" /\ ret.price.some) => NumLE(ret.price, DecideBudget)
        /\ (ret.kind = "ok") \/ (ret.kind = "error" /\ ret.err = "BudgetExceeded")
        /\ (ret.err = "BudgetExceeded") =>
              /\ ret.price.some /\ NumLT(DecideBudget, ret.price)
              /\ \E l \in Listings : l.app = ret.app /\ l.item.price = ret.price /\ l.pos <= 2

\* C2 witness: decide has refused a selection priced above the budget
C2_Witness ==
    /\ ret.op = "decide" /\ ret.err = "BudgetExceeded"
    /\ ret.price.some /\ NumLT(DecideBudget, ret.price)

\* C5: no tool call raises an exception across the tool boundary.
C5_NeverRaises == ret.kind # "raise"

\* a budget that is unparseable or not strictly positive
BadBudget(b) ==
    \/ b.tag = "none"
    \/ (b.tag = "num" /\ NumLE(b.val, NumInt(0)))
    \/ (b.tag = "text" /\ ~parse_budget(b.s).ok)

\* C6: on a ledger that is not empty, decide answers an unparseable or non-positive
\* budget, text or number, with InvalidBudget.
C6_BadBudgetRejected ==
    (ret.op = "decide" /\ items # <<>> /\ BadBudget(arg.budget)) =>
        (ret.kind = "error" /\ ret.err = "InvalidBudget")

\* C7: while no listing has been recorded, decide returns NoListings for any budget.
C7_EmptyLedgerNoListings ==
    (ret.op = "decide" /\ observed = <<>>) =>
        (ret.kind = "error" /\ ret.err = "NoListings")

\* C7 witness: decide on an empty ledger, after failed titles were reported
C7_Witness ==
    /\ ret.op = "decide" /\ observed = <<>> /\ marked # {}
    /\ arg.budget = TextBudget(<<"a", "b", "c">>)
    /\ ret.err = "NoListings"

\* the candidate of the storefront at position i: the listing of the highest composite
\* score among its first two, the first of them when several share that score
WindowBest(i) ==
    LET list == items[i].list
        w    == IF Len(list) < 2 THEN Len(list) ELSE 2
    IN  list[CHOOSE j \in 1..w :
                /\ \A k \in 1..w : NumLE(score_item(list[k]), score_item(list[j]))
                /\ \A k \in 1..(j - 1) : score_item(list[k]) # score_item(list[j])]

\* the storefronts whose candidate has a known price within the budget b
Affordable(b) ==
    { i \in 1..Len(items) : WindowBest(i).price.some /\ NumLE(WindowBest(i).price, b) }

\* decide has answered a valid budget on a ledger that is not empty
Decided == ret.op = "decide" /\ items # <<>> /\ CleanBudget[arg.budget].ok

\* the result is the listing it, of the storefront at position i
ResultIs(i, it) ==
    /\ ret.kind = "ok"
    /\ ret.app = items[i].app
    /\ ret.title = it.title /\ ret.price = it.price /\ ret.rating = it.rating
    /\ ret.score = score_item(it)

\* C3: when some storefront's candidate has a known price within the budget, decide
\* returns the candidate of the lowest such price, of the first-recorded storefront
\* among those of that price, and gives the lower price as its reason.
C3_PriceFirst ==
    (Decided /\ Affordable(DecideBudget) # {}) =>
        \E i \in Affordable(DecideBudget) :
            /\ \A k \in Affordable(DecideBudget) :
                  /\ NumLE(WindowBest(i).price, WindowBest(k).price)
                  /\ k < i => WindowBest(k).price # WindowBest(i).price
            /\ ResultIs(i, WindowBest(i))
            /\ ret.reason = "price"

\* C3 witness: the cheaper candidate was returned over a better rated one within budget
C3_Witness ==
    /\ Decided /\ ret.kind = "ok" /\ ret.reason = "price"
    /\ \E k \in Affordable(DecideBudget) :
          /\ NumLT(ret.price, WindowBest(k).price)
          /\ NumLT(ret.rating, WindowBest(k).rating)

\* the candidates the score fallback chooses among: those whose price is not known to
\* be above the budget b, or all of them when there is none
FallbackPool(b) ==
    LET ok == { i \in 1..Len(items) :
                    ~WindowBest(i).price.some \/ NumLE(WindowBest(i).price, b) }
    IN  IF ok # {} THEN ok ELSE 1..Len(items)

\* C4: when no candidate has a known price within the budget, decide selects a
\* candidate of the highest composite score in the pool, names the composite score as
\* its reason and returns it, unless its price is known and above the budget: then it
\* fails with BudgetExceeded.
C4_ScoreFallback ==
    (Decided /\ Affordable(DecideBudget) = {}) =>
        \E i \in FallbackPool(DecideBudget) :
            LET it == WindowBest(i)
            IN  /\ \A k \in FallbackPool(DecideBudget) :
                      NumLE(score_item(WindowBest(k)), score_item(it))
                /\ IF it.price.some /\ NumLT(DecideBudget, it.price)
                   THEN /\ ret.kind = "error" /\ ret.err = "BudgetExceeded"
                        /\ ret.app = items[i].app /\ ret.price = it.price
                   ELSE ResultIs(i, it) /\ ret.reason = "score"

\* C4 witness: the fallback returned a listing of unknown price although a candidate of
\* a higher score is priced above the budget
C4_Witness ==
    /\ Decided /\ ret.kind = "ok" /\ ret.reason = "score" /\ ~ret.price.some
    /\ \E k \in 1..Len(items) :
          /\ WindowBest(k).price.some /\ NumLT(DecideBudget, WindowBest(k).price)
          /\ NumLT(ret.score, score_item(WindowBest(k)))

\* the texts a listing carries, as observed and as stored
ListingTexts ==
    ObsTitles \cup ObsPrices \cup StoredTitles \cup { HtmlEscape(OrEmpty(p)) : p \in ObsPrices }

\* the text contains "sponsored", "ad", "advertisement" or "promoted", in any case
Mentions ==
    [s \in ListingTexts |->
        s # NoneS /\ \E w \in SponsoredWords :
            \E i \in 0..(Len(s) - Len(w)) :
                \A k \in 1..Len(w) : LowerChar(s[i + k]) = w[k]]

\* C8: no listing of the ledger has a title or a price text that mentions a sponsored
\* word, and recording such an observation leaves the ledger and the best-price index
\* as they were.
C8_NoSponsoredListing ==
    [][ /\ \A l \in Listings' :
              ~Mentions[l.item.title] /\ ~Mentions[l.item.raw_price] /\ ~Mentions[l.seen]
        /\ (ret'.op = "record" /\ (Mentions[arg'.title] \/ Mentions[arg'.price_text])) =>
              (items' = items /\ prices' = prices /\ ret'.kind = "ok")
      ]_vars

\* C8 witness: a sponsored observation was dropped from a ledger that holds listings
C8_Witness ==
    /\ ret.op = "record" /\ Mentions[arg.price_text] /\ ~Mentions[arg.title]
    /\ ret.reason = "skipped_sponsored"
    /\ TotalListings = 2

\* C9: the Exclusion Set never loses a title, and only mark_failed_open and
\* next_candidate change it.
C9_ExclusionMonotone ==
    [][ /\ failed_opens \subseteq failed_opens'
        /\ failed_opens' # failed_opens => ret'.op \in {"mark", "next"}
      ]_vars

\* C9 witness: the ledger accepts a listing while two titles are excluded
C9_Witness ==
    /\ Cardinality(failed_opens) = 2
    /\ ret.op = "record" /\ ret.kind = "ok" /\ ret.reason # "skipped_sponsored"

SameLetter(c, d) ==
    c = d \/ \E i \in 1..26 : {c, d} = {UpperChars[i], LowerChars[i]}

\* a and b differ at most in letter case and surrounding whitespace
Variant ==
    [a \in FailTitles \ {NoneS}, b \in FailTitles \ {NoneS} |->
        LET x == Strip(a)
            y == Strip(b)
        IN  Len(x) = Len(y) /\ \A i \in 1..Len(x) : SameLetter(x[i], y[i])]

\* C10: the Exclusion Set holds one element for each group of reported titles that
\* differ only in case or surrounding whitespace; should_try is false for exactly the
\* titles that have a reported variant and true for an absent title; reporting an
\* absent title returns an error.
C10_MarkIdempotent ==
    /\ Cardinality(failed_opens) =
          Cardinality({ { v \in marked : Variant[t, v] } : t \in marked })
    /\ \A v \in FailTitles \ {NoneS} :
          should_try(v) <=> ~(\E t \in marked : Variant[t, v])
    /\ should_try(NoneS) /\ should_try(<<>>)
    /\ (ret.op = "mark" /\ ~Truthy(arg.title)) => (ret.kind = "error")
    /\ (ret.op = "mark" /\ Truthy(arg.title)) => (ret.kind = "ok")

\* C10 witness: both variants of one title were reported, the set holds one element and
\* should_try has refused a variant
C10_Witness ==
    /\ marked = {T_x, T_X}
    /\ Cardinality(failed_opens) = 1
    /\ ret.op = "should_try" /\ arg.title = T_X /\ ~ret.flag

\* a field of a record call that carries nothing: not given, or the empty text
Absent(x) == ~Truthy(x)

\* the last record call was made with a storefront name and reached the ledger's record
\* operation (the caller's sponsored filter let it through)
Recorded ==
    /\ ret.op = "record" /\ arg.app # NoneS
    /\ ~Sponsored[<<arg.title, arg.price_text>>]

\* C11: record returns an error exactly when price text, rating and title are all
\* absent; with one of them present it succeeds and the listing is the last of the list
\* of the storefront name, trimmed and lowercased.
C11_RecordFailsIffNoSignal ==
    Recorded =>
        IF Absent(arg.price_text) /\ Absent(arg.rating) /\ Absent(arg.title)
        THEN ret.kind = "error"
        ELSE /\ ret.kind = "ok"
             /\ \E l \in Listings :
                   /\ l.app = Strip(Lower(arg.app)) /\ l.seen = arg.title
                   /\ \A m \in Listings : m.app = l.app => m.pos <= l.pos

\* the sequence a is a prefix of the sequence b
IsPrefix(a, b) == Len(a) <= Len(b) /\ SubSeq(b, 1, Len(a)) = a

\* C12: the ledger is append-only: in every step each storefront keeps its place and
\* its earlier list is a prefix of its later list; decide, mark_failed_open, should_try
\* and next_candidate leave the ledger and the best-price index as they were, whatever
\* they return, and so does a record call that returns an error.
C12_LedgerAppendOnly ==
    [][ /\ Len(items) <= Len(items')
        /\ \A i \in 1..Len(items) :
              /\ items'[i].app = items[i].app
              /\ IsPrefix(items[i].list, items'[i].list)
        /\ ret'.op \in {"decide", "mark", "should_try", "next"} =>
              (items' = items /\ prices' = prices)
        /\ (ret'.op = "record" /\ ret'.kind = "error") =>
              (items' = items /\ prices' = prices)
      ]_vars

\* C12 witness: next_candidate has failed with NoCandidates on a ledger that holds two
\* listings of one storefront
C12_Witness ==
    /\ ret.op = "next" /\ ret.kind = "error" /\ ret.err = "NoCandidates"
    /\ \E i \in 1..Len(items) : Len(items[i].list) = 2

\* rating_or_zero and price_or_1e9 of a listing
RatingOrZero(it) == IF it.rating.some THEN it.rating ELSE NumInt(0)

\* the two listings that were scored
Scored == { items[1].list[j] : j \in 1..2 }

\* C13: the composite score strictly increases with the rating at a fixed price,
\* strictly decreases with the known price at a fixed rating, and a listing of unknown
\* price scores strictly lower than a listing of the same rating whose price is known,
\* however large that price is; the listing max() picks has the highest score.
C13_ScoreMonotone ==
    ret.op = "score" =>
        /\ \A a \in Scored : NumLE(score_item(a), ret.score)
        /\ \A a \in Scored, b \in Scored :
              /\ (a.price = b.price /\ NumLT(RatingOrZero(a), RatingOrZero(b))) =>
                    NumLT(score_item(a), score_item(b))
              /\ (RatingOrZero(a) = RatingOrZero(b) /\ a.price.some /\ b.price.some
                    /\ NumLT(a.price, b.price)) =>
                    NumLT(score_item(b), score_item(a))
              /\ (RatingOrZero(a) = RatingOrZero(b) /\ ~a.price.some /\ b.price.some) =>
                    NumLT(score_item(a), score_item(b))

\* the listings whose title, as observed, has not been reported as failed to open
Remaining ==
    { l \in Listings : ~(Truthy(l.seen) /\ NormTitle[l.seen] \in failed_opens) }

\* the best of a storefront's remaining listings: the highest composite score, the
\* earliest recorded among equals
StoreBests ==
    { l \in Remaining :
        \A m \in Remaining : m.app = l.app =>
            \/ NumLT(score_item(m.item), score_item(l.item))
            \/ (score_item(m.item) = score_item(l.item) /\ l.pos <= m.pos) }

\* the budget of the last next_candidate call: [ok, val], no value when none was given
RetryBudget ==
    IF arg.budget.tag = "none" THEN Parsed(NoneN)
    ELSE IF arg.budget.tag = "num" THEN Parsed(arg.budget.val)
    ELSE parse_budget(arg.budget.s)

\* the storefront bests next_candidate chooses among
RetryPool ==
    LET b  == RetryBudget.val
        ok == { l \in StoreBests : ~l.item.price.some \/ NumLE(l.item.price, b) }
    IN  IF b.some /\ ok # {} THEN ok ELSE StoreBests

\* C14: next_candidate adds the title to the Exclusion Set, fails with NoCandidates
\* exactly when every recorded listing is excluded, and otherwise returns the listing of
\* the highest composite score among the storefront bests (taken over each storefront's
\* full list without the excluded titles) that pass the budget filter, or among all of
\* them when none passes.
C14_NextCandidate ==
    ret.op = "next" =>
        /\ Truthy(arg.title) => NormTitle[arg.title] \in failed_opens
        /\ (ret.kind = "error" /\ ret.err = "NoCandidates") <=> Remaining = {}
        /\ Remaining # {} =>
              /\ ret.kind = "ok"
              /\ \E l \in RetryPool :
                    /\ l \in Returned
                    /\ ret.score = score_item(l.item)
                    /\ \A m \in RetryPool : NumLE(score_item(m.item), ret.score)

\* the texts that are blank
BlankTexts == { <<>>, <<" ">>, <<" ", " ">> }

\* the bodies that are decimal numbers, with their values
DecimalValue ==
    [b \in { <<"0">>, <<"1", "5">>, <<"1", ",", "4", "9", "9">>, <<"2", ".", "5">>, <<"0", ".", "0">> } |->
        CASE b = <<"0">> -> NumInt(0)
          [] b = <<"1", "5">> -> NumInt(15)
          [] b = <<"1", ",", "4", "9", "9">> -> NumInt(1499)
          [] b = <<"2", ".", "5">> -> Num(2, 5)
          [] b = <<"0", ".", "0">> -> NumInt(0)]

\* what follows the number, with the factor it stands for
Multiplier ==
    [x \in { <<>>, <<"k">>, <<"K">>, <<"m">>, <<"M">>, <<" ", "k">>, <<" ">> } |->
        IF x \in { <<"k">>, <<"K">>, <<" ", "k">> } THEN 1000
        ELSE IF x \in { <<"m">>, <<"M">> } THEN 1000000
        ELSE 1]

Times(v, k) == IF k = 1 THEN v ELSE NumScale(v, k)

\* the ways to read the text as a decimal number between blanks, with a suffix or not
DecimalReadings(text) ==
    { r \in [pre : {<<>>, <<" ">>}, body : DOMAIN DecimalValue, suf : DOMAIN Multiplier] :
        r.pre \o r.body \o r.suf = text }

\* parse_budget has returned the number v
Returns(v) == ret.kind = "ok" /\ ret.price = v

\* returns v if it is positive, and fails otherwise
ReturnsPositive(v) == IF NumLT(NumInt(0), v) THEN Returns(v) ELSE ret.kind = "raise"

\* C15: parse_budget returns a strictly positive number or fails; blank texts, "0" and
\* "abc" fail; a decimal number with commas and an optional k or m suffix, in either
\* case, yields the number times 1,000 or 1,000,000; any other text is parsed from its
\* digits and dots alone and fails when none remain or they are not a number.
C15_ParseBudget ==
    ret.op = "parse_budget" =>
        LET text == arg.budget.s
            c    == DigitsAndDots(text)
        IN  /\ ret.kind \in {"ok", "raise"}
            /\ ret.kind = "ok" => (ret.price.some /\ NumLT(NumInt(0), ret.price))
            /\ text \in BlankTexts \cup { <<"0">>, <<"a", "b", "c">> } => ret.kind = "raise"
            /\ text = <<"1", "4", ",", "9", "9", "9">> => Returns(NumInt(14999))
            /\ text = <<"1", "5", "k">> => Returns(NumInt(15000))
            /\ text = <<"2", ".", "5", "M">> => Returns(NumInt(2500000))
            /\ \A r \in DecimalReadings(text) :
                  ReturnsPositive(Times(DecimalValue[r.body], Multiplier[r.suf]))
            /\ (DecimalReadings(text) = {} /\ text \notin BudgetExamples) =>
                  IF c = <<>> \/ ~UFloat(c).ok THEN ret.kind = "raise"
                  ELSE ReturnsPositive(UFloat(c).val)

\* C15 witness: "2.5M" was parsed to 2,500,000
C15_Witness ==
    /\ ret.op = "parse_budget" /\ arg.budget.s = <<"2", ".", "5", "M">>
    /\ Returns(NumInt(2500000))

\* C16: when decide fails with BudgetExceeded, no listing among the first two of any
\* storefront has a known price below the reported price, and none has a known price
\* within the budget.
C16_CheapestReported ==
    (ret.op = "decide" /\ ret.kind = "error" /\ ret.err = "BudgetExceeded") =>
        \A l \in Listings :
            (l.pos <= SampleSize /\ l.item.price.some) =>
                /\ NumLE(ret.price, l.item.price)
                /\ NumLT(DecideBudget, l.item.price)

\* the listings next_after_failed filters out
ExcludedListings == { l \in Listings : Excluded(l.item, failed_opens) }

\* C17: in the retry loop every next_candidate call excludes at least one more listing
\* and returns a listing whose title was not returned before or the NoCandidates
\* error, and with N listings in the ledger the N-th call at the latest returns
\* NoCandidates.
C17_RetryTerminates ==
    [][ calls' = calls + 1 =>
          /\ Cardinality(ExcludedListings) < Cardinality(ExcludedListings')
          /\ \/ ret'.kind = "ok" /\ ret'.title \notin marked' /\ Returned' # {}
             \/ ret'.kind = "error" /\ ret'.err = "NoCandidates"
          /\ calls' >= TotalListings => (ret'.kind = "error" /\ ret'.err = "NoCandidates")
      ]_vars

====
